---- MODULE Spec2Model ----
(***************************************************************************)
(* Model of solargeo/AVG_EL.py: AVG_EL(TIME, lat, lon, tz, REF), the       *)
(* interval-averaged solar elevation angle.                                *)
(*                                                                         *)
(* Timestamps are whole seconds counted from 2015-01-01 00:00 UTC,         *)
(* timedeltas are whole seconds.  Angles are whole degrees, sines are      *)
(* integers scaled by 10000.  One action per statement group of the        *)
(* function body; pc names the line the interpreter is about to execute.   *)
(***************************************************************************)
EXTENDS Integers, Sequences, FiniteSets, TLC

\* ------------------------------------------------------------------ bounds
\* Largest number of timestamps of an input series.
MaxN == 4

\* ----------------------------------------------------------- input domains
\* Midnight of 2015-01-03, the day the modelled series start on.
BaseDay == 2 * 86400

\* First timestamps: 00:00, 01:30, 02:04 (minutes before sunset at
\* lat 0, lon -122) and 21:00 of the base day.
Starts == {BaseDay, BaseDay + 5400, BaseDay + 7440, BaseDay + 75600}

\* Time steps: 2 min, 15 min, 3 h, 1 day, 1 day + 3 h.
Steps == {120, 900, 10800, 86400, 97200}

\* Extra gap before the last timestamp (0: the series is uniformly spaced).
Gaps == {0, 600}

Lats == {0, 48}
Lons == {-122}
Tzs  == {0, 8}
Refs == {"BEG", "MID", "END", "FOO"}

\* The series t0, t0+step, ..., with `gap` added to the last timestamp.
MkSeries(t0, step, n, gap) ==
    [i \in 1..n |-> t0 + (i - 1) * step + (IF i = n /\ n >= 3 THEN gap ELSE 0)]

InputSeries ==
    {MkSeries(t0, s, n, g) : t0 \in Starts, s \in Steps, n \in 0..MaxN, g \in Gaps}

\* ------------------------------------------------------- numeric helpers
Abs(x) == IF x < 0 THEN -x ELSE x

\* round(10000 * sin(d degrees)) for d = 0..90.
SinTab ==
    <<0, 175, 349, 523, 698, 872, 1045, 1219, 1392, 1564, 1736, 1908, 2079,
      2250, 2419, 2588, 2756, 2924, 3090, 3256, 3420, 3584, 3746, 3907, 4067, 4226,
      4384, 4540, 4695, 4848, 5000, 5150, 5299, 5446, 5592, 5736, 5878, 6018, 6157,
      6293, 6428, 6561, 6691, 6820, 6947, 7071, 7193, 7314, 7431, 7547, 7660, 7771,
      7880, 7986, 8090, 8192, 8290, 8387, 8480, 8572, 8660, 8746, 8829, 8910, 8988,
      9063, 9135, 9205, 9272, 9336, 9397, 9455, 9511, 9563, 9613, 9659, 9703, 9744,
      9781, 9816, 9848, 9877, 9903, 9925, 9945, 9962, 9976, 9986, 9994, 9998, 10000>>

\* np.sin(EL*np.pi/180.) of a whole-degree elevation in -90..90.
Sin(d) == IF d >= 0 THEN SinTab[d + 1] ELSE -SinTab[-d + 1]

\* The value pandas/numpy print as NaN (mean of an empty bin, arcsin of it).
NaN == -999

\* np.arcsin(sum/cnt)*180./np.pi, rounded down to whole degrees.
Arcsin(sum, cnt) ==
    CHOOSE d \in -90..90 :
        /\ Sin(d) * cnt <= sum
        /\ (d = 90 \/ Sin(d + 1) * cnt > sum)

\* ---------------------------------------------- pandas Timestamp fields
SecsPerDay == 86400

\* Timestamp.normalize(): midnight of the timestamp's day.
Normalize(t) == t - (t % SecsPerDay)

Hour(t)   == (t % SecsPerDay) \div 3600
Minute(t) == ((t % SecsPerDay) % 3600) \div 60

\* DatetimeIndex.year / .dayofyear (2014 and 2015 have 365 days).
Year(t)      == 2015 + ((t \div SecsPerDay) \div 365)
DayOfYear(t) == ((t \div SecsPerDay) % 365) + 1

\* Timedelta.seconds: the seconds component, the whole days left out.
TdSeconds(d) == d % SecsPerDay

\* ------------------------------------------------------------------ SUNAE
\* Solar declination of the day, whole degrees (triangular season).
Decl(jday) == 23 - ((Abs(jday - 172) * 46) \div 183)

\* solargeometry.SUNAE(yyyy, jday, hh, lat, lon)[0]: the instantaneous
\* elevation angle in whole degrees, within [-90, 90].  hh is the decimal
\* hour, given here in minutes.
SUNAE(yyyy, jday, hh, lat, lon) ==
    LET solar == (hh + 4 * lon) % 1440
        noon  == 90 - Abs(lat - Decl(jday))
        night == -(90 - Abs(lat + Decl(jday)))
    IN  noon - (((noon - night) * Abs(solar - 720)) \div 720)

\* ------------------------------------------------- the stages of AVG_EL
\* dt = TIME[1]-TIME[0]
StepOf(T) == T[2] - T[1]

\* TIME[:] - d
ShiftBy(T, d) == [i \in 1..Len(T) |-> T[i] - d]

\* dt/2 (a Timedelta has nanosecond resolution: exact for whole seconds;
\* every step of Steps is an even number of seconds)
Half(d) == d \div 2

\* 'BEG' & REF: str defines no __and__, whatever the right operand is.
StrAnd(a, b) == "TypeError"

\* The condition of the last elif, REF!='BEG' & REF!='MID' & REF!='END'.
\* & binds tighter than !=, so Python reads the comparison chain
\* REF != ('BEG' & REF) != ('MID' & REF) != 'END' and evaluates its
\* operands left to right: 'BEG' & REF comes first.  The result is TRUE,
\* FALSE or the exception raised.
ElifCond(R) ==
    LET b == StrAnd("BEG", R)
    IN  IF b = "TypeError" THEN "TypeError"
        ELSE LET m == StrAnd("MID", R)
             IN  IF m = "TypeError" THEN "TypeError"
                 ELSE (R # b) /\ (b # m) /\ (m # "END")

\* The if/elif chain of the REF block: what it leaves in TIME and how it
\* ends ("ok", or the exception's name).
RefShift(T, d, R) ==
    IF R = "END" THEN [status |-> "ok", TIME |-> ShiftBy(T, d)]
    ELSE IF R = "MID" THEN [status |-> "ok", TIME |-> ShiftBy(T, Half(d))]
    ELSE LET c == ElifCond(R)
         IN  IF c = "TypeError" THEN [status |-> "TypeError", TIME |-> T]
             ELSE IF c THEN [status |-> "ValueError", TIME |-> T]
             ELSE [status |-> "ok", TIME |-> T]

\* Spacing of the fine sequence, freq='5Min'.
FineStep == 300

\* pd.date_range(start, end, freq): start, start+freq, ... up to end.
DateRange(start, end, freq) ==
    IF end < start THEN << >>
    ELSE [i \in 1..(((end - start) \div freq) + 1) |-> start + (i - 1) * freq]

\* hh = t_fine.hour + t_fine.minute/60. + tz, in minutes.
DecimalHour(t, z) == 60 * Hour(t) + Minute(t) + 60 * z

\* Mutant of MewFine: the sine is left out, raw angles get averaged.
MewFine_RawAngles(tf, la, lo, z) ==
    [i \in 1..Len(tf) |->
        SUNAE(Year(tf[i]), DayOfYear(tf[i]), DecimalHour(tf[i], z), la, lo)]

\* mew_fine['el_ang']: the sine of SUNAE's elevation at each fine timestamp.
MewFine(tf, la, lo, z) ==
    [i \in 1..Len(tf) |->
        Sin(SUNAE(Year(tf[i]), DayOfYear(tf[i]), DecimalHour(tf[i], z), la, lo))]

\* resample_rule_secs = str(dt.seconds)+'S', as a number of seconds.
ResampleRule(d) == TdSeconds(d)

RECURSIVE SumRange(_, _, _)
SumRange(f, lo, hi) == IF lo > hi THEN 0 ELSE f[lo] + SumRange(f, lo + 1, hi)

\* Index of the first sample of the regular sequence tf at or after time a.
FirstAtOrAfter(tf, a) ==
    IF a <= tf[1] THEN 1 ELSE ((a - tf[1] + FineStep - 1) \div FineStep) + 1

\* Left edge of the first bin: resample anchors its bin edges on the
\* midnight of the first sample's day (base=0), not on the first sample.
FirstEdge(tf, rule) == tf[1] - ((tf[1] - Normalize(tf[1])) % rule)

\* Right edge of the last bin (closed='left').
LastEdge(tf, rule) ==
    LET last == tf[Len(tf)]
        loff == (last - Normalize(tf[1])) % rule
    IN  IF loff > 0 THEN last + (rule - loff) ELSE last + rule

\* mew_fine.resample(rule, how='mean', label='left'): one record per bin,
\* its left edge as label, the sum and the number of the samples in
\* [label, label + rule).  The mean is sum/cnt, undefined when cnt = 0.
Resample(tf, mf, rule) ==
    LET fe == FirstEdge(tf, rule)
        nb == (LastEdge(tf, rule) - fe) \div rule
    IN  [k \in 1..nb |->
            LET lab == fe + (k - 1) * rule
                lo  == FirstAtOrAfter(tf, lab)
                nx  == FirstAtOrAfter(tf, lab + rule)
                hi  == (IF nx > Len(tf) THEN Len(tf) ELSE nx - 1)
            IN  [label |-> lab,
                 sum   |-> SumRange(mf, lo, hi),
                 cnt   |-> (IF hi >= lo THEN hi - lo + 1 ELSE 0)]]

\* EL = np.arcsin(mew_coarse['el_ang'])*180./np.pi
ArcsinMean(b) == IF b.cnt = 0 THEN NaN ELSE Arcsin(b.sum, b.cnt)

ElRaw(mc) == [k \in 1..Len(mc) |-> [label |-> mc[k].label, v |-> ArcsinMean(mc[k])]]

\* EL > 0 (NaN compares False)
Gt0(v) == v # NaN /\ v > 0

\* Mutant of Where: the clamp is left out.
Where_NoClamp(v) == v

\* EL.where(EL>0,0), element by element
Where(v) == IF Gt0(v) THEN v ELSE 0

Clamp(el) == [k \in 1..Len(el) |-> [label |-> el[k].label, v |-> Where(el[k].v)]]

\* ------------------------------------------------------------------ state
VARIABLES
    arg_TIME,           \* TIME as passed by the caller (line 5)
    TIME,               \* TIME, reassigned by the REF block (lines 43, 45)
    lat, lon, tz, REF,  \* the other arguments (line 5)
    dt,                 \* line 41
    t_fine,             \* line 53
    mew_fine,           \* line 60, the 'el_ang' column
    resample_rule_secs, \* line 64, as a number of seconds
    mew_coarse,         \* line 65, one record per bin
    EL,                 \* lines 66-67, one record per bin
    pc,                 \* next line to execute, "done" or "error"
    err                 \* name of the exception raised, "none" if none

vars == <<arg_TIME, TIME, lat, lon, tz, REF, dt, t_fine, mew_fine,
          resample_rule_secs, mew_coarse, EL, pc, err>>

\* Value of a local that is not assigned yet.
None == -1

Init ==
    /\ arg_TIME \in InputSeries
    /\ TIME = arg_TIME
    /\ lat \in Lats
    /\ lon \in Lons
    /\ tz \in Tzs
    /\ REF \in Refs
    /\ dt = None
    /\ t_fine = << >>
    /\ mew_fine = << >>
    /\ resample_rule_secs = None
    /\ mew_coarse = << >>
    /\ EL = << >>
    /\ pc = "L41"
    /\ err = "none"

Raise(e) == pc' = "error" /\ err' = e

\* line 41: dt = TIME[1]-TIME[0]; TIME[1] raises IndexError on a series
\* of fewer than two timestamps.
DeriveStep ==
    /\ pc = "L41"
    /\ IF Len(TIME) < 2
       THEN /\ Raise("IndexError")
            /\ dt' = dt
       ELSE /\ dt' = StepOf(TIME)
            /\ pc' = "L42"
            /\ err' = err
    /\ UNCHANGED <<arg_TIME, TIME, lat, lon, tz, REF, t_fine, mew_fine,
                   resample_rule_secs, mew_coarse, EL>>

\* lines 42-47: the REF block.
ShiftRef ==
    /\ pc = "L42"
    /\ LET r == RefShift(TIME, dt, REF)
       IN  /\ TIME' = r.TIME
           /\ IF r.status = "ok"
              THEN pc' = "L51" /\ err' = err
              ELSE Raise(r.status)
    /\ UNCHANGED <<arg_TIME, lat, lon, tz, REF, dt, t_fine, mew_fine,
                   resample_rule_secs, mew_coarse, EL>>

\* lines 51-53: the fine sequence.
FineRange ==
    /\ pc = "L51"
    /\ t_fine' = DateRange(TIME[1], TIME[Len(TIME)], FineStep)
    /\ pc' = "L56"
    /\ UNCHANGED <<arg_TIME, TIME, lat, lon, tz, REF, dt, mew_fine,
                   resample_rule_secs, mew_coarse, EL, err>>

\* lines 56-60: SUNAE at every fine timestamp, then its sine.
EvalFine ==
    /\ pc = "L56"
    /\ mew_fine' = MewFine(t_fine, lat, lon, tz)
    /\ pc' = "L64"
    /\ UNCHANGED <<arg_TIME, TIME, lat, lon, tz, REF, dt, t_fine,
                   resample_rule_secs, mew_coarse, EL, err>>

\* lines 64-65: resample to the coarse step.  A rule of '0S' makes the bin
\* arithmetic divide by zero.
ResampleCoarse ==
    /\ pc = "L64"
    /\ resample_rule_secs' = ResampleRule(dt)
    /\ IF ResampleRule(dt) = 0
       THEN /\ Raise("ZeroDivisionError")
            /\ mew_coarse' = mew_coarse
       ELSE /\ mew_coarse' = Resample(t_fine, mew_fine, ResampleRule(dt))
            /\ pc' = "L66"
            /\ err' = err
    /\ UNCHANGED <<arg_TIME, TIME, lat, lon, tz, REF, dt, t_fine, mew_fine, EL>>

\* line 66: back to an angle.
ToAngle ==
    /\ pc = "L66"
    /\ EL' = ElRaw(mew_coarse)
    /\ pc' = "L67"
    /\ UNCHANGED <<arg_TIME, TIME, lat, lon, tz, REF, dt, t_fine, mew_fine,
                   resample_rule_secs, mew_coarse, err>>

\* lines 67-68: clamp and return.
ClampReturn ==
    /\ pc = "L67"
    /\ EL' = Clamp(EL)
    /\ pc' = "done"
    /\ UNCHANGED <<arg_TIME, TIME, lat, lon, tz, REF, dt, t_fine, mew_fine,
                   resample_rule_secs, mew_coarse, err>>

Next ==
    \/ DeriveStep
    \/ ShiftRef
    \/ FineRange
    \/ EvalFine
    \/ ResampleCoarse
    \/ ToAngle
    \/ ClampReturn

Spec == Init /\ [][Next]_vars

\* The whole call as a function of its arguments: how it ends and, when it
\* returns, the series returned.
AVG_EL(T, la, lo, z, R) ==
    IF Len(T) < 2 THEN [status |-> "IndexError", EL |-> << >>]
    ELSE LET d == StepOf(T)
             r == RefShift(T, d, R)
         IN  IF r.status # "ok" THEN [status |-> r.status, EL |-> << >>]
             ELSE IF ResampleRule(d) = 0
                  THEN [status |-> "ZeroDivisionError", EL |-> << >>]
                  ELSE LET tf == DateRange(r.TIME[1], r.TIME[Len(r.TIME)], FineStep)
                       IN  [status |-> "returned",
                            EL |-> Clamp(ElRaw(Resample(tf, MewFine(tf, la, lo, z),
                                                        ResampleRule(d))))]

\* How the modelled call ended.
Outcome ==
    IF pc = "done" THEN [status |-> "returned", EL |-> EL]
    ELSE [status |-> err, EL |-> << >>]

TypeOK ==
    /\ pc \in {"L41", "L42", "L51", "L56", "L64", "L66", "L67", "done", "error"}
    /\ (pc \in {"done", "error"}) => Outcome = AVG_EL(arg_TIME, lat, lon, tz, REF)

\* ============================================================== claims
Accepted == {"BEG", "MID", "END"}

\* The input series is uniformly spaced.
Uniform(T) == \A i \in 2..Len(T) : T[i] - T[i - 1] = T[2] - T[1]

\* The call has ended.
Ended == pc \in {"done", "error"}

\* The REF block (lines 42-47) has been executed.
PastRefBlock == Len(arg_TIME) >= 2 /\ pc \notin {"L41", "L42"}

\* The REF block raised.
RefBlockRaised == pc = "error" /\ err \in {"TypeError", "ValueError"}

\* The shift the REF convention asks for.
ShiftFor(R, d) == IF R = "END" THEN d ELSE IF R = "MID" THEN d \div 2 ELSE 0

RECURSIVE SetSum(_, _)
SetSum(S, f) ==
    IF S = {} THEN 0
    ELSE LET x == CHOOSE y \in S : TRUE IN f[x] + SetSum(S \ {x}, f)

\* C1: a REF that is none of 'BEG', 'MID', 'END' ends in an error and no
\* series is returned; each of the three accepted literals passes the REF
\* validation without an error.
C1_RefValidation ==
    PastRefBlock =>
        IF REF \in Accepted THEN ~RefBlockRaised ELSE pc = "error"

\* C2: every value of the returned series is >= 0 and <= 90, and a bin
\* whose averaged elevation is negative, zero or undefined is returned as
\* exactly 0.
C2_ClampedRange ==
    pc = "done" =>
        /\ Len(EL) = Len(mew_coarse)
        /\ \A k \in 1..Len(EL) :
              /\ EL[k].v >= 0
              /\ EL[k].v <= 90
              /\ (mew_coarse[k].cnt = 0 \/ mew_coarse[k].sum <= 0) => EL[k].v = 0

\* C2 witness: a returned series with an undefined bin, a bin below the
\* horizon and a bin above it.
C2_Witness ==
    /\ pc = "done"
    /\ REF \in Accepted
    /\ \E k \in 1..Len(EL) : mew_coarse[k].cnt = 0 /\ EL[k].v = 0
    /\ \E k \in 1..Len(EL) : mew_coarse[k].cnt > 0 /\ mew_coarse[k].sum < 0 /\ EL[k].v = 0
    /\ \E k \in 1..Len(EL) : EL[k].v > 0

\* C3: for a uniformly spaced series of N >= 2 timestamps and an accepted
\* REF, the returned series has exactly N entries, labelled by the shifted
\* input timestamps in the same order.
C3_IndexIsShiftedInput ==
    (pc = "done" /\ Len(arg_TIME) >= 2 /\ Uniform(arg_TIME) /\ REF \in Accepted) =>
        /\ Len(EL) = Len(arg_TIME)
        /\ \A i \in 1..Len(arg_TIME) :
              EL[i].label = arg_TIME[i] - ShiftFor(REF, StepOf(arg_TIME))

\* Number of points of the 5-minute grid that starts at g0 lying in [a, b).
GridCount(g0, a, b) ==
    LET ia == IF a <= g0 THEN 0 ELSE (a - g0 + FineStep - 1) \div FineStep
        ib == IF b <= g0 THEN 0 ELSE (b - g0 + FineStep - 1) \div FineStep
    IN  ib - ia

\* C4: for every input timestamp, the last one included, the returned value
\* is the average over all 5-minute samples of the whole interval
\* [t_start, t_start + step), t_start being the shifted timestamp: no value
\* is computed from fewer samples.
C4_WholeInterval ==
    (pc = "done" /\ Uniform(arg_TIME)) =>
        \A i \in 1..Len(TIME) :
            \E k \in 1..Len(EL) :
                /\ EL[k].label = TIME[i]
                /\ mew_coarse[k].cnt = GridCount(TIME[1], TIME[i], TIME[i] + dt)

\* C5: for a uniformly spaced series T with step dt, AVG_EL(T, 'BEG'),
\* AVG_EL(T + dt, 'END') and AVG_EL(T + dt/2, 'MID') return identical
\* series, equal in index and values.
C5_RefEquivalence ==
    (Ended /\ REF = "BEG" /\ Len(arg_TIME) >= 2 /\ Uniform(arg_TIME)) =>
        LET d == StepOf(arg_TIME)
            e == AVG_EL(ShiftBy(arg_TIME, -d), lat, lon, tz, "END")
            m == AVG_EL(ShiftBy(arg_TIME, -(d \div 2)), lat, lon, tz, "MID")
        IN  /\ Outcome.status = "returned"
            /\ Outcome = e
            /\ Outcome = m

\* C6: a series of fewer than 2 timestamps is explicitly rejected, by an
\* error the function raises itself, before any step size is derived; no
\* series is returned.
C6_ShortRejected ==
    (Len(arg_TIME) < 2 /\ pc # "L41") =>
        /\ pc = "error"
        /\ err = "ValueError"
        /\ dt = None

\* C7: for a uniformly spaced 3-hour series with REF='BEG' the returned
\* series has no missing value and a strictly increasing index.
C7_ThreeHourBeg ==
    (Ended /\ REF = "BEG" /\ Len(arg_TIME) >= 2 /\ Uniform(arg_TIME)
           /\ StepOf(arg_TIME) = 10800) =>
        /\ pc = "done"
        /\ \A k \in 1..Len(EL) : EL[k].v # NaN
        /\ \A k \in 2..Len(EL) : EL[k - 1].label < EL[k].label

\* C8: the REF block replaces every timestamp t by t - step for 'END', by
\* t - step/2 for 'MID', and for 'BEG' completes without error and leaves
\* every timestamp unchanged.
C8_ShiftStep ==
    PastRefBlock =>
        /\ REF = "END" => TIME = [i \in 1..Len(arg_TIME) |-> arg_TIME[i] - dt]
        /\ REF = "MID" => TIME = [i \in 1..Len(arg_TIME) |-> arg_TIME[i] - (dt \div 2)]
        /\ REF = "BEG" => (~RefBlockRaised /\ TIME = arg_TIME)

\* C9: the width of the resampling bins is the original step
\* TIME[1]-TIME[0] for every step, steps of a day or longer included, and
\* each bin is labelled by its left edge.
C9_BinWidthIsStep ==
    resample_rule_secs # None =>
        /\ resample_rule_secs = dt
        /\ \A k \in 2..Len(mew_coarse) :
              mew_coarse[k].label - mew_coarse[k - 1].label = dt

\* Sine of the instantaneous elevation at the fine timestamp t, evaluated
\* at decimal hour = hour + minute/60 + tz.
SinAt(t) ==
    Sin(SUNAE(Year(t), DayOfYear(t),
              60 * ((t % 86400) \div 3600) + ((t % 3600) \div 60) + 60 * tz,
              lat, lon))

\* C10: for each bin the result before clamping is arcsin of the arithmetic
\* mean of sin(EL_i) over the instantaneous SUNAE elevations of the fine
\* samples in the bin, each evaluated at hour + minute/60 + tz.
C10_SineSpaceMean ==
    pc = "L67" =>
        /\ Len(EL) = Len(mew_coarse)
        /\ \A k \in 1..Len(EL) :
            LET lab == mew_coarse[k].label
                S   == {i \in 1..Len(t_fine) :
                           lab <= t_fine[i] /\ t_fine[i] < lab + resample_rule_secs}
                sm  == SetSum(S, [i \in S |-> SinAt(t_fine[i])])
            IN  /\ EL[k].label = lab
                /\ EL[k].v = IF S = {} THEN NaN ELSE Arcsin(sm, Cardinality(S))

\* C10 witness: before the clamp, a bin of several samples whose elevations
\* differ, with a timezone offset in use.
C10_Witness ==
    /\ pc = "L67"
    /\ tz # 0
    /\ \E k \in 1..Len(EL) :
          /\ mew_coarse[k].cnt >= 3
          /\ EL[k].v # NaN
          /\ EL[k].v > 0
          /\ \E i, j \in 1..Len(t_fine) :
                /\ mew_coarse[k].label <= t_fine[i]
                /\ t_fine[i] < t_fine[j]
                /\ t_fine[j] < mew_coarse[k].label + resample_rule_secs
                /\ mew_fine[i] # mew_fine[j]

====
